---- MODULE Spec2Model ----
(***************************************************************************)
(* A model of the errorset engine (types.ts, config.ts): branded error     *)
(* values, the dual-purpose kind functions, the set guard, errorSet's      *)
(* duplicate validation (compile-time walk and runtime scan), recover,     *)
(* inspect and merge.                                                      *)
(*                                                                         *)
(* JavaScript values are records with the same fields, so that any two of  *)
(* them can be compared.  Objects made by the engine live in `heap`; their *)
(* identity is their index there.                                          *)
(***************************************************************************)
EXTENDS Integers, Sequences, FiniteSets, TLC

VARIABLES
  sets,             \* the error sets declared so far, in declaration order
  heap,             \* the error values constructed so far
  currentConfig,    \* config.ts: the global settings record
  stackTraceLimit,  \* the process-wide Error.stackTraceLimit
  engine,           \* "v8" when Error.captureStackTrace exists, else "other"
  merged,           \* the guards merge() has returned, in creation order
  origin,           \* origin[i]: the set whose kind function made heap[i]
  tasks,            \* the captureAsync calls made so far
  log,              \* the configure and resetConfig calls made so far
  iters,            \* the iterators application code has obtained from sets
  last              \* the last call made by application code, and its outcome

vars ==
  <<sets, heap, currentConfig, stackTraceLimit, engine, merged, origin, tasks,
    log, iters, last>>

(***************************************************************************)
(* Bounds of the model.                                                    *)
(***************************************************************************)
MaxSets == 2      \* error sets declared in one run
MaxKinds == 2     \* length of a kind list handed to errorSet in Spec
MaxErrs == 2      \* error values constructed in one run
MaxKeys == 2      \* placeholder keys of a template in SpecMsg
MaxDupLen == 4    \* length of a kind list in SpecDup
MaxMerges == 2    \* merge calls in one run
MaxTasks == 2     \* captureAsync calls in one run
MaxChain == 3     \* error values constructed in SpecChain
MaxConfigs == 3   \* configure and resetConfig calls in one run
MaxIters == 2     \* iterators obtained from sets in one run

Range(s) == {s[i] : i \in 1..Len(s)}

SeqsUpTo(S, n) == UNION {[1..m -> S] : m \in 0..n}

(***************************************************************************)
(* JavaScript values as the guards see them.                               *)
(*   typ      the value's type (null and undefined are their own)          *)
(*   isArray  Array.isArray(value)                                         *)
(*   raw      the value has a property `raw` that is an array              *)
(*   items    an array's elements (the segments of a template)             *)
(*   brand    value[ERR]: "absent", "true", "false" or "other"             *)
(*   kindTyp  typeof value.kind                                            *)
(*   kind     value.kind when it is a string                               *)
(*   ref      index in heap of an engine-made value, 0 for any other       *)
(***************************************************************************)
JS(typ, isArray, raw, items, brand, kindTyp, kind, ref) ==
  [typ |-> typ, isArray |-> isArray, raw |-> raw, items |-> items,
   brand |-> brand, kindTyp |-> kindTyp, kind |-> kind, ref |-> ref]

Prim(typ) == JS(typ, FALSE, FALSE, <<>>, "absent", "undefined", "", 0)

Obj(brand, kindTyp, kind) ==
  JS("object", FALSE, FALSE, <<>>, brand, kindTyp, kind, 0)

Arr(items) == JS("object", TRUE, FALSE, items, "absent", "undefined", "", 0)

\* A TemplateStringsArray: what a tagged template passes as first argument.
Tpl(strings) == JS("object", TRUE, TRUE, strings, "absent", "undefined", "", 0)

\* The value at heap index i, as a guard sees it.
Ref(h, i) == JS("object", FALSE, FALSE, <<>>, "true", "string", h[i].kind, i)

\* typeof value
TypeOf(v) == IF v.typ = "null" THEN "object" ELSE v.typ

\* `ERR in value` raises a TypeError unless value is an object or a function.
InThrows(v) == v.typ \notin {"object", "function"}

Ret(b) == [threw |-> FALSE, error |-> "", ret |-> b]

Thrown(e) == [threw |-> TRUE, error |-> e, ret |-> FALSE]

(***************************************************************************)
(* config.ts                                                               *)
(***************************************************************************)
defaultConfig ==
  [format |-> "pretty", includeStack |-> FALSE, includeTimestamp |-> FALSE,
   colors |-> TRUE, stackDepth |-> 10]

\* { ...base, ...partial }: the fields of partial override those of base.
Spread(base, partial) ==
  [f \in DOMAIN base |-> IF f \in DOMAIN partial THEN partial[f] ELSE base[f]]

\* The absent `config` argument of init().
NoConfig == [undefined |-> TRUE]

\* A configure that starts over from the defaults.
configureFromDefaults(config, options) == Spread(defaultConfig, options)

\* configure(options): currentConfig = { ...currentConfig, ...options }
configure(config, options) == Spread(config, options)

\* getConfig(): the current settings object.
getConfig(config) == config

\* resetConfig(): currentConfig = { ...defaultConfig }
resetConfig == Spread(defaultConfig, <<>>)

(***************************************************************************)
(* isErr                                                                   *)
(***************************************************************************)
isErr(value) ==
  IF value.typ = "null" THEN Ret(FALSE)
  ELSE IF TypeOf(value) # "object" THEN Ret(FALSE)
  ELSE IF InThrows(value) THEN Thrown("TypeError")
  ELSE IF value.brand = "absent" THEN Ret(FALSE)
  ELSE Ret(value.brand = "true")

(***************************************************************************)
(* createSetGuard: the guard closure over `kinds`.                         *)
(***************************************************************************)
\* A membership test that looks at the first kind only.
includesFirst(kinds, kind) == Len(kinds) > 0 /\ kinds[1] = kind

includes(kinds, kind) == \E i \in 1..Len(kinds) : kinds[i] = kind

guard(kinds, value) ==
  IF value.typ = "null" \/ TypeOf(value) # "object" THEN Ret(FALSE)
  ELSE IF InThrows(value) THEN Thrown("TypeError")
  ELSE IF value.brand = "absent" \/ value.brand # "true" THEN Ret(FALSE)
  ELSE IF value.kindTyp # "string" THEN Ret(FALSE)
  ELSE Ret(includes(kinds, value.kind))

\* The instanceof of a function without Symbol.hasInstance of its own:
\* false for a primitive, else a TypeError, an arrow function having no
\* prototype object.
hasInstanceOrdinary(kinds, value) ==
  IF value.typ = "null" \/ TypeOf(value) \notin {"object", "function"}
  THEN Ret(FALSE)
  ELSE Thrown("TypeError")

\* Symbol.hasInstance: `value instanceof S` calls the guard.
hasInstance(kinds, value) == guard(kinds, value)

(***************************************************************************)
(* Entity field values, and String(value).                                 *)
(***************************************************************************)
Str(s) == [t |-> "string", s |-> s, n |-> 0]

Num(n) == [t |-> "number", s |-> "", n |-> n]

Bool(b) == [t |-> "boolean", s |-> "", n |-> IF b THEN 1 ELSE 0]

Undefined == [t |-> "undefined", s |-> "", n |-> 0]

Null == [t |-> "null", s |-> "", n |-> 0]

Digit(d) ==
  CASE d = 0 -> "0" [] d = 1 -> "1" [] d = 2 -> "2" [] d = 3 -> "3"
    [] d = 4 -> "4" [] d = 5 -> "5" [] d = 6 -> "6" [] d = 7 -> "7"
    [] d = 8 -> "8" [] d = 9 -> "9"

RECURSIVE NumberToString(_)
NumberToString(n) ==
  IF n < 10 THEN Digit(n) ELSE NumberToString(n \div 10) \o Digit(n % 10)

\* String(value)
String(value) ==
  CASE value.t = "string" -> value.s
    [] value.t = "number" -> NumberToString(value.n)
    [] value.t = "boolean" -> (IF value.n = 1 THEN "true" ELSE "false")
    [] value.t = "null" -> "null"
    [] value.t = "undefined" -> "undefined"
    [] value.t = "object" -> "[object Object]"

\* value || fallback: 0, false and "" fall back too.
CoalesceFalsy(value, fallback) ==
  IF \/ value.t \in {"null", "undefined"}
     \/ value.t \in {"number", "boolean"} /\ value.n = 0
     \/ value.t = "string" /\ value.s = ""
  THEN fallback ELSE value

\* value ?? fallback
Coalesce(value, fallback) ==
  IF value.t \in {"null", "undefined"} THEN fallback ELSE value

\* entity[key]: undefined when the entity has no such field.
Get(entity, key) == IF key \in DOMAIN entity THEN entity[key] ELSE Undefined

\* strings[i] ?? "" (i counts from 0 as in the source)
Segment(strings, i) == IF i + 1 \in 1..Len(strings) THEN strings[i + 1] ELSE ""

\* obj[key] = value
Assign(obj, key, value) ==
  [k \in DOMAIN obj \cup {key} |-> IF k = key THEN value ELSE obj[k]]

(***************************************************************************)
(* captureStack: the stack attached to the target, if any,                 *)
(* Error.stackTraceLimit as the call leaves it, and the values the call    *)
(* assigns to it, in order.                                                *)
(***************************************************************************)
NoStack == [present |-> FALSE, frames |-> 0]

\* A captureStack that goes by the global settings of load time.
captureStackAtLoad(instanceConfig, globalConfig, limit, eng) ==
  LET config == IF instanceConfig # NoConfig
                THEN Spread(defaultConfig, instanceConfig)
                ELSE defaultConfig
  IN IF ~config.includeStack
     THEN [stack |-> NoStack, limit |-> limit, writes |-> <<>>]
     ELSE IF eng = "v8"
     THEN [stack |-> [present |-> TRUE, frames |-> config.stackDepth],
           limit |-> limit, writes |-> <<config.stackDepth, limit>>]
     ELSE [stack |-> NoStack, limit |-> limit, writes |-> <<>>]

\* A captureStack that reads the global settings only.
captureStackGlobalOnly(instanceConfig, globalConfig, limit, eng) ==
  LET config == globalConfig
  IN IF ~config.includeStack
     THEN [stack |-> NoStack, limit |-> limit, writes |-> <<>>]
     ELSE IF eng = "v8"
     THEN [stack |-> [present |-> TRUE, frames |-> config.stackDepth],
           limit |-> limit, writes |-> <<config.stackDepth, limit>>]
     ELSE [stack |-> NoStack, limit |-> limit, writes |-> <<>>]

\* A captureStack that leaves Error.stackTraceLimit at the depth.
captureStackNoRestore(instanceConfig, globalConfig, limit, eng) ==
  LET config == IF instanceConfig # NoConfig
                THEN Spread(globalConfig, instanceConfig)
                ELSE globalConfig
  IN IF ~config.includeStack
     THEN [stack |-> NoStack, limit |-> limit, writes |-> <<>>]
     ELSE IF eng = "v8"
     THEN [stack |-> [present |-> TRUE, frames |-> config.stackDepth],
           limit |-> config.stackDepth, writes |-> <<config.stackDepth>>]
     ELSE [stack |-> NoStack, limit |-> limit, writes |-> <<>>]

captureStack(instanceConfig, globalConfig, limit, eng) ==
  LET config == IF instanceConfig # NoConfig
                THEN Spread(globalConfig, instanceConfig)
                ELSE globalConfig
  IN IF ~config.includeStack
     THEN [stack |-> NoStack, limit |-> limit, writes |-> <<>>]
     ELSE IF eng = "v8"
     THEN LET originalLimit == limit
              during == config.stackDepth
          IN [stack |-> [present |-> TRUE, frames |-> during],
              limit |-> originalLimit, writes |-> <<during, originalLimit>>]
     ELSE [stack |-> NoStack, limit |-> limit, writes |-> <<>>]

(***************************************************************************)
(* createKindFunction: kindFn in guard mode and in template mode, and the  *)
(* creator a template call returns.                                        *)
(***************************************************************************)
\* A copy of the whole entity.
ExtractWholeEntity(keys, entity, data) == entity

\* for (const key of keys) data[key] = entity[key]
RECURSIVE ExtractData(_, _, _)
ExtractData(keys, entity, data) ==
  IF keys = <<>> THEN data
  ELSE ExtractData(Tail(keys), entity,
                   Assign(data, Head(keys), Get(entity, Head(keys))))

\* The loop of creator over i, from i to keys.length - 1.
RECURSIVE BuildMessage(_, _, _, _, _)
BuildMessage(strings, keys, entity, i, message) ==
  IF i >= Len(keys) THEN message
  ELSE LET value == Get(entity, keys[i + 1])
       IN BuildMessage(strings, keys, entity, i + 1,
            (message \o String(Coalesce(value, Str("")))) \o Segment(strings, i + 1))

\* A creator that leaves the cause out of the value.
creatorWithoutCause(kind, instanceConfig, strings, keys, entity, cause, globalConfig, limit, eng) ==
  LET data == ExtractData(keys, entity, <<>>)
      message == BuildMessage(strings, keys, entity, 0, Segment(strings, 0))
      cs == captureStack(instanceConfig, globalConfig, limit, eng)
  IN [err |-> [kind |-> kind, message |-> message, data |-> data,
               cause |-> 0, stack |-> cs.stack],
      limit |-> cs.limit, writes |-> cs.writes]

\* options?.cause: 0 stands for undefined (no options, or no cause in them).
creator(kind, instanceConfig, strings, keys, entity, cause, globalConfig, limit, eng) ==
  LET data == ExtractData(keys, entity, <<>>)
      message == BuildMessage(strings, keys, entity, 0, Segment(strings, 0))
      cs == captureStack(instanceConfig, globalConfig, limit, eng)
  IN [err |-> [kind |-> kind, message |-> message, data |-> data,
               cause |-> cause, stack |-> cs.stack],
      limit |-> cs.limit, writes |-> cs.writes]

KindRet(r) ==
  [threw |-> r.threw, error |-> r.error, ret |-> r.ret, isCreator |-> FALSE,
   strings |-> <<>>, keys |-> <<>>]

\* A mode test that takes every array for a template.
kindFnAnyArray(kind, stringsOrValue, keys) ==
  IF stringsOrValue.isArray
  THEN [threw |-> FALSE, error |-> "", ret |-> FALSE, isCreator |-> TRUE,
        strings |-> stringsOrValue.items, keys |-> keys]
  ELSE LET value == stringsOrValue
       IN IF value.typ = "null" \/ TypeOf(value) # "object" THEN KindRet(Ret(FALSE))
          ELSE IF InThrows(value) THEN KindRet(Thrown("TypeError"))
          ELSE IF value.brand = "absent" \/ value.brand # "true"
          THEN KindRet(Ret(FALSE))
          ELSE KindRet(Ret(value.kindTyp = "string" /\ value.kind = kind))

kindFn(kind, stringsOrValue, keys) ==
  IF stringsOrValue.isArray /\ stringsOrValue.raw
  THEN [threw |-> FALSE, error |-> "", ret |-> FALSE, isCreator |-> TRUE,
        strings |-> stringsOrValue.items, keys |-> keys]
  ELSE LET value == stringsOrValue
       IN IF value.typ = "null" \/ TypeOf(value) # "object" THEN KindRet(Ret(FALSE))
          ELSE IF InThrows(value) THEN KindRet(Thrown("TypeError"))
          ELSE IF value.brand = "absent" \/ value.brand # "true"
          THEN KindRet(Ret(FALSE))
          ELSE KindRet(Ret(value.kindTyp = "string" /\ value.kind = kind))

(***************************************************************************)
(* errorSet: the runtime scan with a seen-set, and init().                 *)
(***************************************************************************)
\* A scan that reports the first kind that occurs again further on.
RECURSIVE ScanAhead(_, _, _)
ScanAhead(kinds, i, seen) ==
  IF i > Len(kinds) THEN [dup |-> FALSE, kind |-> ""]
  ELSE IF \E j \in (i + 1)..Len(kinds) : kinds[j] = kinds[i]
  THEN [dup |-> TRUE, kind |-> kinds[i]]
  ELSE ScanAhead(kinds, i + 1, seen)

\* The loop of errorSet from position i on: the first kind already seen.
RECURSIVE Scan(_, _, _)
Scan(kinds, i, seen) ==
  IF i > Len(kinds) THEN [dup |-> FALSE, kind |-> ""]
  ELSE IF kinds[i] \in seen THEN [dup |-> TRUE, kind |-> kinds[i]]
  ELSE Scan(kinds, i + 1, seen \cup {kinds[i]})

DuplicateMessage(kind, name) ==
  "Duplicate kind \"" \o kind \o "\" in error set \"" \o name \o "\""

\* The members init() defines on the set beside the kind functions, all
\* non-configurable: defining one of these names twice raises a TypeError.
OwnMembers ==
  {"kinds", "Type", "recover", "inspect", "merge", "capture", "captureAsync"}

\* errorSet(name, kinds): a builder, or the exception of the scan.
errorSet(name, kinds) ==
  LET scan == Scan(kinds, 1, {})
  IN IF scan.dup
     THEN [threw |-> TRUE, error |-> DuplicateMessage(scan.kind, name)]
     ELSE [threw |-> FALSE, error |-> ""]

\* An own property: what it holds and whether it may be defined again.
Prop(holds, configurable) == [holds |-> holds, configurable |-> configurable]

\* The own properties of an arrow function as the platform makes it.
ArrowFunctionProps == [k \in {"length", "name"} |-> Prop(k, TRUE)]

\* Object.defineProperty(obj, key, {value, configurable: false, ...}) on an
\* object with own properties props: a TypeError when key is an own
\* property that is not configurable.
defineProperty(props, key, holds) ==
  IF key \in DOMAIN props /\ ~props[key].configurable
  THEN [threw |-> TRUE, error |-> "TypeError", props |-> props]
  ELSE [threw |-> FALSE, error |-> "",
        props |-> [k \in DOMAIN props \cup {key} |->
                     IF k = key THEN Prop(holds, FALSE) ELSE props[k]]]

\* The definitions defs[i], defs[i + 1], ... made in turn, up to the first
\* that raises.
RECURSIVE DefineAll(_, _, _)
DefineAll(props, defs, i) ==
  IF i > Len(defs) THEN [threw |-> FALSE, error |-> "", props |-> props]
  ELSE LET d == defineProperty(props, defs[i].key, defs[i].holds)
       IN IF d.threw THEN d ELSE DefineAll(d.props, defs, i + 1)

\* The own properties of the guard createSetGuardWithKinds returns.
GuardProps ==
  DefineAll(ArrowFunctionProps,
            <<[key |-> "Symbol.hasInstance", holds |-> "hasInstance"],
              [key |-> "kinds", holds |-> "kinds"]>>, 1).props

\* The members init() defines after the kind functions, in its order.
InitMembers ==
  <<[key |-> "Type", holds |-> "undefined"],
    [key |-> "recover", holds |-> "recover"],
    [key |-> "inspect", holds |-> "inspect"],
    [key |-> "merge", holds |-> "merge"],
    [key |-> "capture", holds |-> "capture"],
    [key |-> "captureAsync", holds |-> "captureAsync"],
    [key |-> "Symbol.iterator", holds |-> "iterator"]>>

\* errorSet(name, kinds).init(config): the set with its own properties, or
\* the exception raised.
init(name, kinds, config) ==
  DefineAll(GuardProps,
            [i \in 1..Len(kinds) |-> [key |-> kinds[i], holds |-> "kindFn"]]
              \o InitMembers, 1)

(***************************************************************************)
(* The compile-time walk over the literal tuple of kinds.                  *)
(***************************************************************************)
\* A walk that compares each kind with its right neighbour only.
HasAdjacentDuplicates(T) == \E i \in 1..(Len(T) - 1) : T[i] = T[i + 1]

RECURSIVE HasDuplicates(_)
HasDuplicates(T) ==
  IF T = <<>> THEN FALSE
  ELSE IF Head(T) \in Range(Tail(T)) THEN TRUE
  ELSE HasDuplicates(Tail(T))

\* NoDuplicates<T> is never (no argument is assignable to it) or T itself.
NoDuplicates(T) ==
  IF HasDuplicates(T) THEN [never |-> TRUE, type |-> <<>>]
  ELSE [never |-> FALSE, type |-> T]

(***************************************************************************)
(* recover, inspect: handlers is an object literal, so handlers[kind]      *)
(* finds the caller's own entry or else a member of Object.prototype.      *)
(***************************************************************************)
\* Members of Object.prototype, called as plain functions (this undefined):
\* toString returns "[object Undefined]", valueOf raises a TypeError.
ObjectPrototype == {"toString", "valueOf"}

\* handlers[key]: "own", "inherited" or "undefined"
Lookup(handlers, key) ==
  IF key \in handlers THEN "own"
  ELSE IF key \in ObjectPrototype THEN "inherited"
  ELSE "undefined"

\* What the handler found by handlers[key] returns for the error.
Invoke(found, key) ==
  IF found = "own" THEN [threw |-> FALSE, error |-> "", out |-> "handler:" \o key]
  ELSE IF key = "toString"
  THEN [threw |-> FALSE, error |-> "", out |-> "[object Undefined]"]
  ELSE [threw |-> TRUE, error |-> "TypeError", out |-> ""]

Call(found, key, value) == [fn |-> found, key |-> key, arg |-> value]

NoHandlerMessage(kind) ==
  "No handler found for error kind: " \o kind \o ". Provide a handler for \""
    \o kind \o "\" or a catch-all \"_\" handler."

\* passed: recover returns `value` itself; otherwise out is what the handler
\* returned.
Recovered(threw, error, passed, value, out, calls) ==
  [threw |-> threw, error |-> error, passed |-> passed, value |-> value,
   out |-> out, calls |-> calls]

\* A recover that tests isErr(value) where the source tests the set guard.
recoverAnyError(value, kinds, handlers) ==
  LET g == isErr(value)
      none == Prim("undefined")
  IN IF g.threw THEN Recovered(TRUE, g.error, FALSE, none, "", <<>>)
     ELSE IF ~g.ret THEN Recovered(FALSE, "", TRUE, value, "", <<>>)
     ELSE LET error == value
              kind == error.kind
              specificHandler == Lookup(handlers, kind)
              catchAllHandler == Lookup(handlers, "_")
          IN IF specificHandler # "undefined"
             THEN LET r == Invoke(specificHandler, kind)
                  IN Recovered(r.threw, r.error, FALSE, none, r.out,
                               <<Call(specificHandler, kind, error)>>)
             ELSE IF catchAllHandler # "undefined"
             THEN LET r == Invoke(catchAllHandler, "_")
                  IN Recovered(r.threw, r.error, FALSE, none, r.out,
                               <<Call(catchAllHandler, "_", error)>>)
             ELSE Recovered(TRUE, NoHandlerMessage(kind), FALSE, none, "", <<>>)

recover(value, kinds, handlers) ==
  LET g == guard(kinds, value)
      none == Prim("undefined")
  IN IF g.threw THEN Recovered(TRUE, g.error, FALSE, none, "", <<>>)
     ELSE IF ~g.ret THEN Recovered(FALSE, "", TRUE, value, "", <<>>)
     ELSE LET error == value
              kind == error.kind
              specificHandler == Lookup(handlers, kind)
              catchAllHandler == Lookup(handlers, "_")
          IN IF specificHandler # "undefined"
             THEN LET r == Invoke(specificHandler, kind)
                  IN Recovered(r.threw, r.error, FALSE, none, r.out,
                               <<Call(specificHandler, kind, error)>>)
             ELSE IF catchAllHandler # "undefined"
             THEN LET r == Invoke(catchAllHandler, "_")
                  IN Recovered(r.threw, r.error, FALSE, none, r.out,
                               <<Call(catchAllHandler, "_", error)>>)
             ELSE Recovered(TRUE, NoHandlerMessage(kind), FALSE, none, "", <<>>)

inspect(value, kinds, handlers) ==
  LET g == guard(kinds, value)
  IN IF g.threw
     THEN [threw |-> TRUE, error |-> g.error, calls |-> <<>>]
     ELSE IF ~g.ret THEN [threw |-> FALSE, error |-> "", calls |-> <<>>]
     ELSE LET kind == value.kind
              handler == Lookup(handlers, kind)
          IN IF handler # "undefined"
             THEN LET r == Invoke(handler, kind)
                  IN [threw |-> r.threw, error |-> r.error,
                      calls |-> <<Call(handler, kind, value)>>]
             ELSE [threw |-> FALSE, error |-> "", calls |-> <<>>]

(***************************************************************************)
(* createSetGuardWithKinds, merge                                          *)
(***************************************************************************)
createSetGuardWithKinds(kinds) == [kinds |-> kinds]

\* A merge that keeps one copy of a kind both sets declare.
mergeDistinct(guard1, guard2) ==
  createSetGuardWithKinds(
    guard1.kinds \o SelectSeq(guard2.kinds, LAMBDA k : ~includes(guard1.kinds, k)))

merge(guard1, guard2) ==
  LET combinedKinds == guard1.kinds \o guard2.kinds
  IN createSetGuardWithKinds(combinedKinds)

(***************************************************************************)
(* captureSync.  A wrapped function either returns a value or throws one;  *)
(* a thrown value is an Error object, a primitive, a plain object or an    *)
(* object without prototype (Object.create(null)).                         *)
(***************************************************************************)
\* An Error object: s is its message, n tells the objects apart (0: made by
\* the engine with new Error).
ErrorObject(message, n) == [t |-> "error", s |-> message, n |-> n]

PlainObject == [t |-> "object", s |-> "", n |-> 0]

BareObject == [t |-> "bare", s |-> "", n |-> 0]

\* error_ instanceof Error
InstanceofError(value) == value.t = "error"

\* String(value) raises a TypeError for an object that has neither toString
\* nor valueOf.
StringThrows(value) == value.t = "bare"

Returns(value) == [throws |-> FALSE, value |-> value]

Throws(value) == [throws |-> TRUE, value |-> value]

\* The outcome of a capture: by is "fn" when fn's result is passed on,
\* "mapper" when the mapper's is; calls are the arguments the mapper got.
Captured(threw, error, by, value, calls) ==
  [threw |-> threw, error |-> error, by |-> by, value |-> value,
   calls |-> calls]

\* The catch block of captureSync and captureAsync.
Normalize(error_) ==
  IF InstanceofError(error_) THEN Captured(FALSE, "", "mapper", Undefined, <<error_>>)
  ELSE IF StringThrows(error_) THEN Captured(TRUE, "TypeError", "none", Undefined, <<>>)
  ELSE Captured(FALSE, "", "mapper", Undefined,
                <<ErrorObject(String(error_), 0)>>)

captureSync(fn) ==
  IF ~fn.throws THEN Captured(FALSE, "", "fn", fn.value, <<>>)
  ELSE Normalize(fn.value)

(***************************************************************************)
(* The inputs application code hands to the engine.                        *)
(***************************************************************************)
Kinds == {"not_found", "suspended"}

\* Kind lists of the duplicate check.
DupKinds == {"a", "b", "c"}

\* Kinds that are also names of members every object literal inherits.
HandlerKinds == {"not_found", "toString", "valueOf"}

\* Kinds spelled like the set's own members and like the own properties of
\* every function, beside an ordinary one.
MemberKinds == {"not_found", "name", "length"} \cup OwnMembers

SetNames == {"UserError", "OrderError"}

\* The name given to the n-th set declared.
SetName(n) == IF n = 1 THEN "UserError" ELSE "OrderError"

\* Values no kind function made: null, undefined, primitives, arrays, plain
\* objects, objects whose brand is present but not true.
NotBranded ==
  {Prim("null"), Prim("undefined"), Prim("string"), Prim("number"),
   Prim("boolean"),
   Arr(<<>>), Arr(<<"Symbol(err)", "not_found">>),
   Obj("absent", "string", "not_found"), Obj("absent", "undefined", ""),
   Obj("false", "string", "not_found"), Obj("other", "string", "not_found")}

\* Objects written by hand with the exported ERR symbol as a key set to true.
HandMade ==
  {Obj("true", "string", "not_found"), Obj("true", "string", "elsewhere"),
   Obj("true", "number", ""), Obj("true", "undefined", "")}

\* A function, and the first argument of a tagged template call.
Callable == Prim("function")

ATemplate == Tpl(<<"gone">>)

Refs(h) == {Ref(h, i) : i \in 1..Len(h)}

Values(h) == NotBranded \cup HandMade \cup {Callable} \cup Refs(h)

\* Templates and entities of the constructions in Spec.
Templates ==
  {[strings |-> <<"gone">>, keys |-> <<>>],
   [strings |-> <<"User ", " not found">>, keys |-> <<"id">>]}

Entities == {[id |-> Str("123"), name |-> Str("John")]}

\* Two settings records that differ from the defaults and from each other.
AltA ==
  [format |-> "json", includeStack |-> TRUE, includeTimestamp |-> TRUE,
   colors |-> FALSE, stackDepth |-> 5]

AltB ==
  [format |-> "minimal", includeStack |-> FALSE, includeTimestamp |-> FALSE,
   colors |-> TRUE, stackDepth |-> 20]

\* The record r with the fields in D only: a Partial<Config>.
Restrict(r, D) == [f \in D |-> r[f]]

\* The fields the option records of application code specify.
OptionFields ==
  {{}, {"format"}, {"includeStack"}, {"includeTimestamp"}, {"colors"},
   {"stackDepth"}, {"format", "colors"},
   {"format", "includeStack", "stackDepth"}}

\* The arguments of configure.
ConfigOptions == {Restrict(a, D) : a \in {AltA, AltB}, D \in OptionFields}

\* The arguments of configure in SpecConfig.
GlobalOptions ==
  {Restrict(AltA, {"includeStack"}), Restrict(AltA, {"includeTimestamp"}),
   Restrict(AltB, {"stackDepth"})}

\* The `config` arguments of init() in SpecConfig.
Overrides ==
  {Restrict(AltA, {"includeStack"}), Restrict(AltA, {"includeTimestamp"}),
   Restrict(AltA, {"includeStack", "stackDepth"})}

(***************************************************************************)
(* The state after the modules are loaded.  last.op = "none": application  *)
(* code is between two calls.                                              *)
(***************************************************************************)
Idle == [op |-> "none"]

Init ==
  /\ sets = <<>>
  /\ heap = <<>>
  /\ currentConfig = defaultConfig
  /\ stackTraceLimit = 10
  /\ engine = "v8"
  /\ merged = <<>>
  /\ origin = <<>>
  /\ tasks = <<>>
  /\ log = <<>>
  /\ iters = <<>>
  /\ last = Idle

\* Application code takes the outcome of its call and goes on.
Return ==
  /\ last # Idle
  /\ last' = Idle
  /\ UNCHANGED <<sets, heap, currentConfig, stackTraceLimit, engine, merged,
                 origin, tasks, log, iters>>

(***************************************************************************)
(* configure(options), resetConfig() and getConfig() of config.ts.  log    *)
(* keeps the calls that wrote the settings, in order.                      *)
(***************************************************************************)
Configure(options) ==
  /\ last = Idle
  /\ Len(log) < MaxConfigs
  /\ currentConfig' = configure(currentConfig, options)
  /\ log' = Append(log, [op |-> "configure", options |-> options])
  /\ last' = [op |-> "configure", options |-> options]
  /\ UNCHANGED <<sets, heap, stackTraceLimit, engine, merged, origin, tasks,
                 iters>>

ResetConfig ==
  /\ last = Idle
  /\ Len(log) < MaxConfigs
  /\ currentConfig' = resetConfig
  /\ log' = Append(log, [op |-> "resetConfig", options |-> <<>>])
  /\ last' = [op |-> "resetConfig"]
  /\ UNCHANGED <<sets, heap, stackTraceLimit, engine, merged, origin, tasks,
                 iters>>

GetConfig ==
  /\ last = Idle
  /\ last' = [op |-> "getConfig", res |-> getConfig(currentConfig)]
  /\ UNCHANGED <<sets, heap, currentConfig, stackTraceLimit, engine, merged,
                 origin, tasks, log, iters>>

(***************************************************************************)
(* errorSet(name, kinds).init(config).  rejected: the call does not        *)
(* compile, its argument being checked against NoDuplicates<Kinds>.        *)
(* at: the call that raised the exception, if one did.                     *)
(***************************************************************************)
DeclareSet(name, kinds, config) ==
  /\ last = Idle
  /\ Len(sets) < MaxSets
  /\ LET b == errorSet(name, kinds)
         s == init(name, kinds, config)
         r == IF b.threw THEN b ELSE s
     IN /\ sets' = IF r.threw THEN sets
                   ELSE Append(sets, [name |-> name, kinds |-> kinds,
                                      config |-> config, members |-> kinds])
        /\ last' = [op |-> "errorSet", name |-> name, kinds |-> kinds,
                    rejected |-> NoDuplicates(kinds).never,
                    threw |-> r.threw, error |-> r.error,
                    at |-> IF b.threw THEN "errorSet"
                           ELSE IF s.threw THEN "init" ELSE "",
                    set |-> IF r.threw THEN 0 ELSE Len(sets) + 1]
  /\ UNCHANGED <<heap, currentConfig, stackTraceLimit, engine, merged, origin,
                 tasks, log, iters>>

(***************************************************************************)
(* S.kind`template`(entity, {cause}): the kind function of set s in        *)
(* template mode, then the creator it returned.                            *)
(***************************************************************************)
\* A construction that also makes the new value the cause of its cause.
ConstructLinkingBack(s, kind, strings, keys, entity, cause) ==
  /\ last = Idle
  /\ LET f == kindFn(kind, Tpl(strings), keys)
         c == creator(kind, sets[s].config, f.strings, f.keys, entity, cause,
                      currentConfig, stackTraceLimit, engine)
         linked == IF cause = 0 THEN heap
                   ELSE [heap EXCEPT ![cause].cause = Len(heap) + 1]
     IN /\ f.isCreator
        /\ heap' = Append(linked, c.err)
        /\ origin' = Append(origin, s)
        /\ stackTraceLimit' = c.limit
        /\ last' = [op |-> "construct", set |-> s, kind |-> kind,
                    strings |-> strings, keys |-> keys, entity |-> entity,
                    cause |-> cause, ref |-> Len(heap) + 1,
                    limitWrites |-> c.writes]
  /\ UNCHANGED <<sets, currentConfig, engine, merged, tasks, log, iters>>

Construct(s, kind, strings, keys, entity, cause) ==
  /\ last = Idle
  /\ LET f == kindFn(kind, Tpl(strings), keys)
         c == creator(kind, sets[s].config, f.strings, f.keys, entity, cause,
                      currentConfig, stackTraceLimit, engine)
     IN /\ f.isCreator
        /\ heap' = Append(heap, c.err)
        /\ origin' = Append(origin, s)
        /\ stackTraceLimit' = c.limit
        /\ last' = [op |-> "construct", set |-> s, kind |-> kind,
                    strings |-> strings, keys |-> keys, entity |-> entity,
                    cause |-> cause, ref |-> Len(heap) + 1,
                    limitWrites |-> c.writes]
  /\ UNCHANGED <<sets, currentConfig, engine, merged, tasks, log, iters>>

(***************************************************************************)
(* S.kind`template` alone: the kind function of set s in template mode.    *)
(* value: what the call evaluates to as a guard sees it, the creator       *)
(* closure, a function without properties of its own making.               *)
(***************************************************************************)
TemplateCall(s, kind, strings, keys) ==
  /\ last = Idle
  /\ LET f == kindFn(kind, Tpl(strings), keys)
     IN /\ f.isCreator
        /\ last' = [op |-> "template", set |-> s, kind |-> kind,
                    strings |-> strings, keys |-> keys, res |-> f,
                    value |-> Callable]
  /\ UNCHANGED <<sets, heap, currentConfig, stackTraceLimit, engine, merged,
                 origin, tasks, log, iters>>

(***************************************************************************)
(* isErr(value), S(value), S.kind(value)                                   *)
(***************************************************************************)
IsErrCall(value) ==
  /\ last = Idle
  /\ last' = [op |-> "isErr", arg |-> value, res |-> isErr(value)]
  /\ UNCHANGED <<sets, heap, currentConfig, stackTraceLimit, engine, merged,
                 origin, tasks, log, iters>>

\* A set guard that accepts the values of its own set's making only.
GuardCallOwnOnly(s, value) ==
  /\ last = Idle
  /\ last' = [op |-> "guard", set |-> s, arg |-> value,
              res |-> IF value.ref # 0 /\ origin[value.ref] # s
                      THEN Ret(FALSE)
                      ELSE guard(sets[s].kinds, value)]
  /\ UNCHANGED <<sets, heap, currentConfig, stackTraceLimit, engine, merged,
                 origin, tasks, log, iters>>

GuardCall(s, value) ==
  /\ last = Idle
  /\ last' = [op |-> "guard", set |-> s, arg |-> value,
              res |-> guard(sets[s].kinds, value)]
  /\ UNCHANGED <<sets, heap, currentConfig, stackTraceLimit, engine, merged,
                 origin, tasks, log, iters>>

\* value instanceof S
InstanceofCall(s, value) ==
  /\ last = Idle
  /\ last' = [op |-> "instanceof", set |-> s, arg |-> value,
              res |-> hasInstance(sets[s].kinds, value)]
  /\ UNCHANGED <<sets, heap, currentConfig, stackTraceLimit, engine, merged,
                 origin, tasks, log, iters>>

\* A kind guard that accepts the values of its own set's making only.
KindFnCallOwnOnly(s, kind, value) ==
  /\ last = Idle
  /\ last' = [op |-> "kindFn", set |-> s, kind |-> kind, arg |-> value,
              res |-> IF value.ref # 0 /\ origin[value.ref] # s
                      THEN KindRet(Ret(FALSE))
                      ELSE kindFn(kind, value, <<>>)]
  /\ UNCHANGED <<sets, heap, currentConfig, stackTraceLimit, engine, merged,
                 origin, tasks, log, iters>>

KindFnCall(s, kind, value) ==
  /\ last = Idle
  /\ last' = [op |-> "kindFn", set |-> s, kind |-> kind, arg |-> value,
              res |-> kindFn(kind, value, <<>>)]
  /\ UNCHANGED <<sets, heap, currentConfig, stackTraceLimit, engine, merged,
                 origin, tasks, log, iters>>

(***************************************************************************)
(* S.recover(value, handlers), S.inspect(value, handlers), A.merge(B)      *)
(***************************************************************************)
Recover(s, value, handlers) ==
  /\ last = Idle
  /\ last' = [op |-> "recover", set |-> s, arg |-> value,
              handlers |-> handlers,
              res |-> recover(value, sets[s].kinds, handlers)]
  /\ UNCHANGED <<sets, heap, currentConfig, stackTraceLimit, engine, merged,
                 origin, tasks, log, iters>>

Inspect(s, value, handlers) ==
  /\ last = Idle
  /\ last' = [op |-> "inspect", set |-> s, arg |-> value,
              handlers |-> handlers,
              res |-> inspect(value, sets[s].kinds, handlers)]
  /\ UNCHANGED <<sets, heap, currentConfig, stackTraceLimit, engine, merged,
                 origin, tasks, log, iters>>

\* A merge that pushes the second guard's kinds onto the first guard's own
\* kinds array and hands that array to the new guard.
MergeInPlace(a, b) ==
  /\ last = Idle
  /\ Len(merged) < MaxMerges
  /\ LET pushed == sets[a].kinds \o sets[b].kinds
     IN /\ sets' = [sets EXCEPT ![a].kinds = pushed]
        /\ merged' = Append(merged, createSetGuardWithKinds(pushed))
        /\ last' = [op |-> "merge", a |-> a, b |-> b,
                    res |-> createSetGuardWithKinds(pushed)]
  /\ UNCHANGED <<heap, currentConfig, stackTraceLimit, engine, origin, tasks,
                 log, iters>>

\* A.merge(B): the kinds arrays of A and B are read, the new guard is made
\* over a new array and nothing else is written.
Merge(a, b) ==
  /\ last = Idle
  /\ Len(merged) < MaxMerges
  /\ LET res == merge(createSetGuardWithKinds(sets[a].kinds),
                      createSetGuardWithKinds(sets[b].kinds))
     IN /\ merged' = Append(merged, res)
        /\ last' = [op |-> "merge", a |-> a, b |-> b, res |-> res]
  /\ UNCHANGED <<sets, heap, currentConfig, stackTraceLimit, engine, origin,
                 tasks, log, iters>>

(***************************************************************************)
(* Iteration and member access.  [...x] and for-of call x[Symbol.iterator] *)
(* and raise a TypeError when x has none; the generator init() defines     *)
(* delegates to the iterator of the kinds array (yield* kinds).            *)
(***************************************************************************)
\* A spread that takes the kinds property for the iteration protocol.
spreadKinds(props, kinds) ==
  IF "kinds" \in DOMAIN props
  THEN [threw |-> FALSE, error |-> "", items |-> kinds]
  ELSE [threw |-> TRUE, error |-> "TypeError", items |-> <<>>]

\* [...x] where x has own properties props and its generator, if it has
\* one, runs over the array kinds.
spread(props, kinds) ==
  IF "Symbol.iterator" \in DOMAIN props
  THEN [threw |-> FALSE, error |-> "", items |-> kinds]
  ELSE [threw |-> TRUE, error |-> "TypeError", items |-> <<>>]

\* Members every function inherits from Function.prototype.
FunctionPrototype == {"toString", "call", "apply", "bind", "constructor"}

\* x[key]: what the own property holds, else what is inherited.
GetMember(props, key) ==
  IF key \in DOMAIN props THEN props[key].holds
  ELSE IF key \in FunctionPrototype THEN "inherited"
  ELSE "undefined"

\* The own properties of set s.
SetProps(s) == init(sets[s].name, sets[s].members, sets[s].config).props

\* An array iterator that starts over at every call of next.
nextFromStart(it, array) ==
  IF array # <<>>
  THEN [it EXCEPT !.pos = 1, !.out = Append(@, array[1]), !.value = array[1]]
  ELSE [it EXCEPT !.done = TRUE, !.value = "undefined"]

\* next() of the generator of a set over the array `array`: the element at
\* the iterator's position, or done when the position is past the end.
next(it, array) ==
  IF it.pos < Len(array)
  THEN [it EXCEPT !.pos = @ + 1, !.out = Append(@, array[it.pos + 1]),
                  !.value = array[it.pos + 1]]
  ELSE [it EXCEPT !.done = TRUE, !.value = "undefined"]

\* S[Symbol.iterator](): a new generator object, not yet started.
IterateSet(s) ==
  /\ last = Idle
  /\ Len(iters) < MaxIters
  /\ "Symbol.iterator" \in DOMAIN SetProps(s)
  /\ iters' = Append(iters, [set |-> s, pos |-> 0, done |-> FALSE,
                               out |-> <<>>, value |-> "undefined"])
  /\ last' = [op |-> "iterator", set |-> s, iter |-> Len(iters) + 1]
  /\ UNCHANGED <<sets, heap, currentConfig, stackTraceLimit, engine, merged,
                 origin, tasks, log>>

\* it.next() on the i-th iterator.
IterNext(i) ==
  /\ last = Idle
  /\ ~iters[i].done
  /\ iters' = [iters EXCEPT ![i] = next(@, sets[@.set].kinds)]
  /\ last' = [op |-> "next", iter |-> i, value |-> iters'[i].value,
              done |-> iters'[i].done]
  /\ UNCHANGED <<sets, heap, currentConfig, stackTraceLimit, engine, merged,
                 origin, tasks, log>>

\* [...S]
SpreadSet(s) ==
  /\ last = Idle
  /\ last' = [op |-> "spread", of |-> "set", set |-> s,
              res |-> spread(SetProps(s), sets[s].kinds)]
  /\ UNCHANGED <<sets, heap, currentConfig, stackTraceLimit, engine, merged,
                 origin, tasks, log, iters>>

\* [...M] for the m-th guard merge returned.
SpreadMerged(m) ==
  /\ last = Idle
  /\ last' = [op |-> "spread", of |-> "merged", merged |-> m,
              res |-> spread(GuardProps, merged[m].kinds)]
  /\ UNCHANGED <<sets, heap, currentConfig, stackTraceLimit, engine, merged,
                 origin, tasks, log, iters>>

\* M.kinds and M[key] for the m-th guard merge returned.
ReadMerged(m, key) ==
  /\ last = Idle
  /\ last' = [op |-> "member", of |-> "merged", merged |-> m, key |-> key,
              kinds |-> merged[m].kinds, res |-> GetMember(GuardProps, key)]
  /\ UNCHANGED <<sets, heap, currentConfig, stackTraceLimit, engine, merged,
                 origin, tasks, log, iters>>

(***************************************************************************)
(* Application code writes to the array it handed to errorSet, which is    *)
(* the array S.kinds holds: createSetGuardWithKinds keeps the reference,   *)
(* and the guard and the generator read the array at each call.            *)
(***************************************************************************)
\* kinds.push(kind), or S.kinds.push(kind) from JavaScript
CallerPush(s, kind) ==
  /\ last = Idle
  /\ Len(sets[s].kinds) <= MaxKinds
  /\ sets' = [sets EXCEPT ![s].kinds = Append(@, kind)]
  /\ last' = [op |-> "push", set |-> s, kind |-> kind]
  /\ UNCHANGED <<heap, currentConfig, stackTraceLimit, engine, merged, origin,
                 tasks, log, iters>>

\* kinds[i - 1] = kind
CallerWrite(s, i, kind) ==
  /\ last = Idle
  /\ i \in 1..Len(sets[s].kinds)
  /\ sets' = [sets EXCEPT ![s].kinds[i] = kind]
  /\ last' = [op |-> "write", set |-> s, index |-> i, kind |-> kind]
  /\ UNCHANGED <<heap, currentConfig, stackTraceLimit, engine, merged, origin,
                 tasks, log, iters>>

(***************************************************************************)
(* A kind function as a primitive.  createKindFunction defines toString    *)
(* and Symbol.toPrimitive on it, both returning the kind.                  *)
(***************************************************************************)
\* A kind function with Symbol.toPrimitive only.
KindFnPropsPrimitiveOnly(kind) ==
  DefineAll(ArrowFunctionProps,
            <<[key |-> "Symbol.toPrimitive", holds |-> kind]>>, 1).props

\* The own properties of the kind function of `kind`; toString and
\* Symbol.toPrimitive hold functions, written here as what they return.
KindFnProps(kind) ==
  DefineAll(ArrowFunctionProps,
            <<[key |-> "toString", holds |-> kind],
              [key |-> "Symbol.toPrimitive", holds |-> kind]>>, 1).props

\* What Function.prototype.toString returns for an arrow function.
SourceText == "(stringsOrValue, ...keys) => { ... }"

\* fn.toString(): the own method, else the inherited one.
CallToString(props) ==
  IF "toString" \in DOMAIN props THEN props["toString"].holds ELSE SourceText

\* ToPrimitive(fn, hint): Symbol.toPrimitive if fn has it; else valueOf and
\* toString in the order of the hint, valueOf giving back the function
\* itself, which is no primitive.
ToPrimitive(props, hint) ==
  IF "Symbol.toPrimitive" \in DOMAIN props
  THEN props["Symbol.toPrimitive"].holds
  ELSE CallToString(props)

\* The value of an expression that converts the kind function with own
\* properties props; other is the string or the second function of the
\* expression.
Coerced(context, props, other) ==
  CASE context = "String" -> ToPrimitive(props, "string")
    [] context = "toString" -> CallToString(props)
    [] context = "concat" -> "Kind: " \o ToPrimitive(props, "default")
    [] context = "template" -> "Kind is " \o ToPrimitive(props, "string")
    [] context = "join" ->
         (ToPrimitive(props, "string") \o ", ") \o ToPrimitive(other, "string")
    [] context = "looseEq" -> IF ToPrimitive(props, "default") = other
                              THEN "true" ELSE "false"

Contexts == {"String", "toString", "concat", "template", "join", "looseEq"}

\* String(S.kind), S.kind.toString(), "Kind: " + S.kind, `Kind is ${S.kind}`,
\* [S.kind, S.kind2].join(", "), S.kind == kind2
Coerce(s, kind, context, kind2) ==
  /\ last = Idle
  /\ last' = [op |-> "coerce", set |-> s, kind |-> kind, context |-> context,
              other |-> kind2,
              res |-> Coerced(context, KindFnProps(kind),
                              IF context = "join" THEN KindFnProps(kind2)
                              ELSE kind2)]
  /\ UNCHANGED <<sets, heap, currentConfig, stackTraceLimit, engine, merged,
                 origin, tasks, log, iters>>

(***************************************************************************)
(* S.capture(fn, mapper) with the mapper of the tests:                     *)
(*   e => S.kind`Query failed: ${"message"}`({ message: e.message })       *)
(***************************************************************************)
FnResults == {Num(42), Str("rows"), Undefined, Null, ErrorObject("returned", 2)}

ThrownValues ==
  {ErrorObject("Connection refused", 1), Str("string error"), Num(404),
   Undefined, Null, Bool(FALSE), PlainObject, BareObject}

Fns == {Returns(v) : v \in FnResults} \cup {Throws(x) : x \in ThrownValues}

\* The error value the mapper makes of the Error it is given.
mapper(kind, instanceConfig, e, globalConfig, limit, eng) ==
  creator(kind, instanceConfig, <<"Query failed: ", "">>, <<"message">>,
          [message |-> Str(e.s)], 0, globalConfig, limit, eng)

\* ref: the heap index of the value the mapper returned, 0 when it did not run.
CaptureSync(s, kind, fn) ==
  /\ last = Idle
  /\ Len(heap) < MaxErrs
  /\ LET r == captureSync(fn)
         m == mapper(kind, sets[s].config, r.calls[1], currentConfig,
                     stackTraceLimit, engine)
     IN IF r.calls = <<>>
        THEN /\ last' = [op |-> "capture", set |-> s, kind |-> kind, fn |-> fn,
                         res |-> r, ref |-> 0]
             /\ UNCHANGED <<heap, origin, stackTraceLimit, iters>>
        ELSE /\ heap' = Append(heap, m.err)
             /\ origin' = Append(origin, s)
             /\ stackTraceLimit' = m.limit
             /\ last' = [op |-> "capture", set |-> s, kind |-> kind, fn |-> fn,
                         res |-> r, ref |-> Len(heap) + 1]
  /\ UNCHANGED <<sets, currentConfig, engine, merged, tasks, log, iters>>

(***************************************************************************)
(* S.captureAsync(fn, mapper).  fn throws before it returns ("throw"),     *)
(* returns a value that is no promise ("return"), or returns a promise     *)
(* that is fulfilled ("fulfil") or rejected ("reject") later.  A call is   *)
(* "awaiting" at `await fn()` while that promise is pending, "settled"     *)
(* once it is fulfilled or rejected and the rest of captureAsync is a      *)
(* queued job, and "done" when captureAsync has run to its end; res is     *)
(* then what its own promise is resolved with (threw: rejected with).      *)
(***************************************************************************)
Behaves(how, value) == [how |-> how, value |-> value]

AsyncFns ==
  {Behaves("return", Num(42)), Behaves("fulfil", Num(42)),
   Behaves("throw", ErrorObject("Connection refused", 1)),
   Behaves("throw", Str("string error")), Behaves("throw", BareObject),
   Behaves("reject", ErrorObject("Timeout", 1)),
   Behaves("reject", Num(404)), Behaves("reject", BareObject)}

NotRun == Captured(FALSE, "", "none", Undefined, <<>>)

\* captureAsync from its first statement to the await or, when fn throws,
\* through the catch block to its end.
captureAsyncEnter(fn) ==
  IF fn.how = "throw"
  THEN [phase |-> "done", res |-> Normalize(fn.value)]
  ELSE [phase |-> IF fn.how = "return" THEN "settled" ELSE "awaiting",
        res |-> NotRun]

\* captureAsync from the await to its end, the awaited promise settled.
captureAsyncResume(fn) ==
  IF fn.how = "reject" THEN Normalize(fn.value)
  ELSE Captured(FALSE, "", "fn", fn.value, <<>>)

\* The state of the promise captureAsync returned.
PromiseState(task) ==
  IF task.phase # "done" THEN "pending"
  ELSE IF task.res.threw THEN "rejected" ELSE "fulfilled"

\* Calls whose mapper has yet to run take a place in the heap each.
Unfinished == Cardinality({i \in 1..Len(tasks) : tasks[i].phase # "done"})

CaptureAsyncCall(s, kind, fn) ==
  /\ last = Idle
  /\ Len(tasks) < MaxTasks
  /\ Len(heap) + Unfinished < MaxErrs
  /\ LET e == captureAsyncEnter(fn)
         m == mapper(kind, sets[s].config, e.res.calls[1], currentConfig,
                     stackTraceLimit, engine)
         ran == e.res.calls # <<>>
     IN /\ tasks' = Append(tasks, [set |-> s, kind |-> kind, fn |-> fn,
                                   phase |-> e.phase, res |-> e.res,
                                   ref |-> IF ran THEN Len(heap) + 1 ELSE 0])
        /\ heap' = IF ran THEN Append(heap, m.err) ELSE heap
        /\ origin' = IF ran THEN Append(origin, s) ELSE origin
        /\ stackTraceLimit' = IF ran THEN m.limit ELSE stackTraceLimit
        /\ last' = [op |-> "captureAsync", task |-> Len(tasks) + 1]
  /\ UNCHANGED <<sets, currentConfig, engine, merged, log, iters>>

\* The promise fn returned is fulfilled or rejected.
FnSettles(i) ==
  /\ last = Idle
  /\ tasks[i].phase = "awaiting"
  /\ tasks' = [tasks EXCEPT ![i].phase = "settled"]
  /\ last' = [op |-> "settle", task |-> i]
  /\ UNCHANGED <<sets, heap, currentConfig, stackTraceLimit, engine, merged,
                 origin, log, iters>>

\* The job that continues captureAsync after its await.
Resume(i) ==
  /\ last = Idle
  /\ tasks[i].phase = "settled"
  /\ LET t == tasks[i]
         r == captureAsyncResume(t.fn)
         m == mapper(t.kind, sets[t.set].config, r.calls[1], currentConfig,
                     stackTraceLimit, engine)
         ran == r.calls # <<>>
     IN /\ tasks' = [tasks EXCEPT ![i].phase = "done", ![i].res = r,
                                  ![i].ref = IF ran THEN Len(heap) + 1 ELSE 0]
        /\ heap' = IF ran THEN Append(heap, m.err) ELSE heap
        /\ origin' = IF ran THEN Append(origin, t.set) ELSE origin
        /\ stackTraceLimit' = IF ran THEN m.limit ELSE stackTraceLimit
        /\ last' = [op |-> "resume", task |-> i]
  /\ UNCHANGED <<sets, currentConfig, engine, merged, log, iters>>

(***************************************************************************)
(* Spec: sets are declared, values constructed (with causes), checked by   *)
(* the guards, and at last two sets merged.                                *)
(***************************************************************************)
Next ==
  \/ /\ merged = <<>>
     /\ \E kinds \in SeqsUpTo(Kinds, MaxKinds) :
          DeclareSet(SetName(Len(sets) + 1), kinds, NoConfig)
  \/ /\ merged = <<>>
     /\ Len(heap) < MaxErrs
     /\ \E s \in 1..Len(sets) : \E kind \in Range(sets[s].kinds) :
          \E t \in Templates : \E entity \in Entities : \E cause \in 0..Len(heap) :
            Construct(s, kind, t.strings, t.keys, entity, cause)
  \/ /\ merged = <<>>
     /\ \E value \in Refs(heap) : IsErrCall(value)
  \/ /\ merged = <<>>
     /\ \E s \in 1..Len(sets) : \E value \in Refs(heap) : GuardCall(s, value)
  \/ /\ merged = <<>>
     /\ \E s \in 1..Len(sets) : \E kind \in Range(sets[s].kinds) :
          \E value \in Refs(heap) : KindFnCall(s, kind, value)
  \/ /\ merged = <<>>
     /\ \E a, b \in 1..Len(sets) : Merge(a, b)
  \/ Return

Spec == Init /\ [][Next]_vars

(***************************************************************************)
(* SpecGuards: one set is declared; isErr, its guard and its kind          *)
(* functions are called with values that no kind function made.            *)
(***************************************************************************)
NextGuards ==
  \/ /\ sets = <<>>
     /\ \E kinds \in SeqsUpTo(Kinds, MaxKinds) :
          DeclareSet(SetName(1), kinds, NoConfig)
  \/ \E value \in Values(heap) \cup {ATemplate} : IsErrCall(value)
  \/ \E s \in 1..Len(sets) : \E value \in Values(heap) \cup {ATemplate} :
       GuardCall(s, value)
  \/ \E s \in 1..Len(sets) : \E kind \in Range(sets[s].kinds) :
       \E value \in Values(heap) \cup {ATemplate} : KindFnCall(s, kind, value)
  \/ \E s \in 1..Len(sets) : \E kind \in Range(sets[s].kinds) :
       \E t \in Templates : TemplateCall(s, kind, t.strings, t.keys)
  \/ Return

SpecGuards == Init /\ [][NextGuards]_vars

(***************************************************************************)
(* SpecMsg: one set is declared and one value constructed, for every       *)
(* template of up to MaxKeys placeholders and every entity over Fields.    *)
(***************************************************************************)
Fields == {"id", "name"}

Segments == {"", "User ", " not found"}

FieldValues == {Str("123"), Num(0), Num(42), Bool(FALSE), Null, Undefined}

MsgTemplates ==
  UNION {{[strings |-> ss, keys |-> ks] : ss \in [1..(Len(ks) + 1) -> Segments]} :
           ks \in SeqsUpTo(Fields, MaxKeys)}

MsgEntities == UNION {[D -> FieldValues] : D \in SUBSET Fields}

NextMsg ==
  \/ /\ sets = <<>>
     /\ \E kinds \in SeqsUpTo(Kinds, MaxKinds) :
          DeclareSet(SetName(1), kinds, NoConfig)
  \/ /\ heap = <<>>
     /\ \E s \in 1..Len(sets) : \E kind \in Range(sets[s].kinds) :
          \E t \in MsgTemplates : \E entity \in MsgEntities :
            Construct(s, kind, t.strings, t.keys, entity, 0)
  \/ Return

SpecMsg == Init /\ [][NextMsg]_vars

(***************************************************************************)
(* SpecDup: errorSet is called with every kind list over DupKinds of up    *)
(* to MaxDupLen kinds.                                                     *)
(***************************************************************************)
NextDup ==
  \/ /\ sets = <<>>
     /\ \E name \in SetNames : \E kinds \in SeqsUpTo(DupKinds, MaxDupLen) :
          DeclareSet(name, kinds, NoConfig)
  \/ Return

SpecDup == Init /\ [][NextDup]_vars

(***************************************************************************)
(* SpecHandlers: one set is declared over HandlerKinds and one value       *)
(* constructed; recover and inspect are called with it, with a success     *)
(* value and with an error of a kind the set does not declare, under       *)
(* every handlers object over the kinds and the catch-all.                 *)
(***************************************************************************)
HandlerSets == SUBSET (HandlerKinds \cup {"_"})

HandlerValues(h) ==
  Refs(h) \cup {Obj("absent", "undefined", ""), Obj("true", "string", "elsewhere"),
                Prim("null"), Prim("string")}

NextHandlers ==
  \/ /\ sets = <<>>
     /\ \E kinds \in SeqsUpTo(HandlerKinds, MaxKinds) :
          DeclareSet(SetName(1), kinds, NoConfig)
  \/ /\ heap = <<>>
     /\ \E s \in 1..Len(sets) : \E kind \in Range(sets[s].kinds) :
          \E t \in Templates : \E entity \in Entities :
            Construct(s, kind, t.strings, t.keys, entity, 0)
  \/ \E s \in 1..Len(sets) : \E value \in HandlerValues(heap) :
       \E handlers \in HandlerSets : Recover(s, value, handlers)
  \/ \E s \in 1..Len(sets) : \E value \in HandlerValues(heap) :
       \E handlers \in HandlerSets : Inspect(s, value, handlers)
  \/ Return

SpecHandlers == Init /\ [][NextHandlers]_vars

(***************************************************************************)
(* SpecMerge: sets are declared, one value constructed, and sets merged    *)
(* up to MaxMerges times, the same two more than once too; the kind        *)
(* functions of the sets are called with the value.                        *)
(***************************************************************************)
NextMerge ==
  \/ \E kinds \in SeqsUpTo(Kinds, MaxKinds) :
       DeclareSet(SetName(Len(sets) + 1), kinds, NoConfig)
  \/ /\ heap = <<>>
     /\ \E s \in 1..Len(sets) : \E kind \in Range(sets[s].kinds) :
          Construct(s, kind, <<"gone">>, <<>>, [id |-> Str("123")], 0)
  \/ \E a, b \in 1..Len(sets) : Merge(a, b)
  \/ \E s \in 1..Len(sets) : \E kind \in Range(sets[s].kinds) :
       \E value \in Refs(heap) : KindFnCall(s, kind, value)
  \/ Return

SpecMerge == Init /\ [][NextMerge]_vars

(***************************************************************************)
(* SpecCapture: one set is declared and its capture is called with         *)
(* functions that return and functions that throw.                         *)
(***************************************************************************)
NextCapture ==
  \/ /\ sets = <<>>
     /\ \E kinds \in SeqsUpTo(Kinds, MaxKinds) :
          DeclareSet(SetName(1), kinds, NoConfig)
  \/ \E s \in 1..Len(sets) : \E kind \in Range(sets[s].kinds) : \E fn \in Fns :
       CaptureSync(s, kind, fn)
  \/ Return

SpecCapture == Init /\ [][NextCapture]_vars

(***************************************************************************)
(* SpecAsync: one set is declared and up to MaxTasks captureAsync calls    *)
(* are made; the promises settle and the calls resume in any order.        *)
(***************************************************************************)
NextAsync ==
  \/ /\ sets = <<>>
     /\ DeclareSet(SetName(1), <<"not_found">>, NoConfig)
  \/ \E s \in 1..Len(sets) : \E kind \in Range(sets[s].kinds) :
       \E fn \in AsyncFns : CaptureAsyncCall(s, kind, fn)
  \/ \E i \in 1..Len(tasks) : FnSettles(i)
  \/ \E i \in 1..Len(tasks) : Resume(i)
  \/ Return

SpecAsync == Init /\ [][NextAsync]_vars

(***************************************************************************)
(* SpecChain: one set is declared and up to MaxChain values constructed,   *)
(* each with any earlier value as its cause or with none.                  *)
(***************************************************************************)
NextChain ==
  \/ /\ sets = <<>>
     /\ \E kinds \in SeqsUpTo(Kinds, MaxKinds) :
          DeclareSet(SetName(1), kinds, NoConfig)
  \/ /\ Len(heap) < MaxChain
     /\ \E s \in 1..Len(sets) : \E kind \in Range(sets[s].kinds) :
          \E t \in Templates : \E entity \in Entities : \E cause \in 0..Len(heap) :
            Construct(s, kind, t.strings, t.keys, entity, cause)
  \/ Return

SpecChain == Init /\ [][NextChain]_vars

(***************************************************************************)
(* SpecSettings: application code calls configure, resetConfig and         *)
(* getConfig in any order.                                                 *)
(***************************************************************************)
NextSettings ==
  \/ \E options \in ConfigOptions : Configure(options)
  \/ ResetConfig
  \/ GetConfig
  \/ Return

SpecSettings == Init /\ [][NextSettings]_vars

(***************************************************************************)
(* SpecConfig: on either kind of platform, the global settings are         *)
(* written, sets are declared with and without a settings override, and    *)
(* then one value is constructed.                                          *)
(***************************************************************************)
InitConfig ==
  /\ sets = <<>>
  /\ heap = <<>>
  /\ currentConfig = defaultConfig
  /\ stackTraceLimit = 10
  /\ engine \in {"v8", "other"}
  /\ merged = <<>>
  /\ origin = <<>>
  /\ tasks = <<>>
  /\ log = <<>>
  /\ iters = <<>>
  /\ last = Idle

NextConfig ==
  \/ /\ heap = <<>>
     /\ \E options \in GlobalOptions : Configure(options)
  \/ /\ heap = <<>>
     /\ ResetConfig
  \/ /\ heap = <<>>
     /\ \E config \in Overrides \cup {NoConfig} :
          DeclareSet(SetName(Len(sets) + 1), <<"not_found">>, config)
  \/ /\ heap = <<>>
     /\ \E s \in 1..Len(sets) : \E entity \in Entities :
          Construct(s, "not_found", <<"gone">>, <<>>, entity, 0)
  \/ GetConfig
  \/ Return

SpecConfig == InitConfig /\ [][NextConfig]_vars

(***************************************************************************)
(* SpecInstance: sets are declared, one value is constructed, and every    *)
(* kind of value, those written by hand with the exported ERR among them,  *)
(* is tested with isErr, against every set with a call and with            *)
(* instanceof, and against every kind function.                            *)
(***************************************************************************)
NextInstance ==
  \/ /\ heap = <<>>
     /\ \E kinds \in SeqsUpTo(Kinds, MaxKinds) :
          DeclareSet(SetName(Len(sets) + 1), kinds, NoConfig)
  \/ /\ heap = <<>>
     /\ \E s \in 1..Len(sets) : \E kind \in Range(sets[s].kinds) :
          \E entity \in Entities :
            Construct(s, kind, <<"gone">>, <<>>, entity, 0)
  \/ \E s \in 1..Len(sets) : \E value \in Values(heap) \cup {ATemplate} :
       GuardCall(s, value)
  \/ \E s \in 1..Len(sets) : \E value \in Values(heap) \cup {ATemplate} :
       InstanceofCall(s, value)
  \/ \E value \in Values(heap) : IsErrCall(value)
  \/ \E s \in 1..Len(sets) : \E kind \in Range(sets[s].kinds) :
       \E value \in Values(heap) : KindFnCall(s, kind, value)
  \/ Return

SpecInstance == Init /\ [][NextInstance]_vars

(***************************************************************************)
(* SpecCoerce: sets are declared and their kind functions are converted    *)
(* to primitives in every context.                                         *)
(***************************************************************************)
NextCoerce ==
  \/ \E kinds \in SeqsUpTo(Kinds, MaxKinds) :
       DeclareSet(SetName(Len(sets) + 1), kinds, NoConfig)
  \/ \E s \in 1..Len(sets) : \E kind, kind2 \in Range(sets[s].kinds) :
       \E context \in Contexts : Coerce(s, kind, context, kind2)
  \/ Return

SpecCoerce == Init /\ [][NextCoerce]_vars

(***************************************************************************)
(* SpecNames: one set is declared with every kind list over MemberKinds of *)
(* up to MaxKinds kinds.                                                   *)
(***************************************************************************)
NextNames ==
  \/ /\ sets = <<>>
     /\ \E name \in SetNames : \E kinds \in SeqsUpTo(MemberKinds, MaxKinds) :
          DeclareSet(name, kinds, NoConfig)
  \/ Return

SpecNames == Init /\ [][NextNames]_vars

(***************************************************************************)
(* SpecFrozen: one set is declared and one value constructed; the guards   *)
(* are called, the set is spread and merged with itself, and application   *)
(* code writes to the array it declared the set with.                      *)
(***************************************************************************)
NextFrozen ==
  \/ /\ sets = <<>>
     /\ \E kinds \in SeqsUpTo(Kinds, MaxKinds) :
          DeclareSet(SetName(1), kinds, NoConfig)
  \/ /\ heap = <<>>
     /\ \E s \in 1..Len(sets) : \E kind \in Range(sets[s].members) :
          \E entity \in Entities :
            Construct(s, kind, <<"gone">>, <<>>, entity, 0)
  \/ \E s \in 1..Len(sets) : \E value \in Refs(heap) : GuardCall(s, value)
  \/ \E s \in 1..Len(sets) : \E kind \in Range(sets[s].members) :
       \E value \in Refs(heap) : KindFnCall(s, kind, value)
  \/ \E s \in 1..Len(sets) : SpreadSet(s)
  \/ /\ merged = <<>>
     /\ \E s \in 1..Len(sets) : Merge(s, s)
  \/ \E s \in 1..Len(sets) : \E kind \in Kinds : CallerPush(s, kind)
  \/ \E s \in 1..Len(sets) : \E i \in 1..Len(sets[s].kinds) :
       \E kind \in Kinds : CallerWrite(s, i, kind)
  \/ Return

SpecFrozen == Init /\ [][NextFrozen]_vars

(***************************************************************************)
(* SpecRead: on either kind of platform one set is declared, with or       *)
(* without a settings override, and values are constructed while the       *)
(* global settings are written in between.                                 *)
(***************************************************************************)
NextRead ==
  \/ /\ sets = <<>>
     /\ \E config \in Overrides \cup {NoConfig} :
          DeclareSet(SetName(1), <<"not_found">>, config)
  \/ \E options \in GlobalOptions : Configure(options)
  \/ ResetConfig
  \/ /\ Len(heap) < MaxErrs
     /\ \E s \in 1..Len(sets) : \E entity \in Entities :
          Construct(s, "not_found", <<"gone">>, <<>>, entity, 0)
  \/ Return

SpecRead == InitConfig /\ [][NextRead]_vars

(***************************************************************************)
(* SpecIter: sets are declared; then either the set declared last is       *)
(* iterated, by up to MaxIters iterators advanced in any order and by      *)
(* spreading it, or two sets are merged and the merged guard is spread     *)
(* and its members are read.                                               *)
(***************************************************************************)
NextIter ==
  \/ /\ iters = <<>>
     /\ merged = <<>>
     /\ \E kinds \in SeqsUpTo(Kinds, MaxKinds) :
          DeclareSet(SetName(Len(sets) + 1), kinds, NoConfig)
  \/ /\ merged = <<>>
     /\ sets # <<>>
     /\ IterateSet(Len(sets))
  \/ \E i \in 1..Len(iters) : IterNext(i)
  \/ /\ merged = <<>>
     /\ sets # <<>>
     /\ SpreadSet(Len(sets))
  \/ /\ iters = <<>>
     /\ merged = <<>>
     /\ \E a, b \in 1..Len(sets) : Merge(a, b)
  \/ \E m \in 1..Len(merged) : SpreadMerged(m)
  \/ \E m \in 1..Len(merged) : \E key \in Kinds \cup {"kinds", "Symbol.iterator"} :
       ReadMerged(m, key)
  \/ Return

SpecIter == Init /\ [][NextIter]_vars

(***************************************************************************)
(* The claims.                                                             *)
(***************************************************************************)

\* C1: a value constructed through the kind function of kind k of a declared
\* set S (any template, any entity, with or without a cause) makes S's set
\* guard and k's kind guard return true, and the kind guard of every other
\* kind of S return false.
C1_ConstructedValueRecognised ==
  last.op = "construct" =>
    LET v == Ref(heap, last.ref)
        S == sets[last.set].kinds
    IN /\ guard(S, v) = Ret(TRUE)
       /\ kindFn(last.kind, v, <<>>) = KindRet(Ret(TRUE))
       /\ \A k \in Range(S) \ {last.kind} :
            kindFn(k, v, <<>>) = KindRet(Ret(FALSE))

\* A value with a cause, constructed with a placeholder through the second
\* kind of a set of two kinds.
C1_Witness ==
  /\ last.op = "construct"
  /\ Len(sets[last.set].kinds) = 2
  /\ last.kind = sets[last.set].kinds[2]
  /\ last.cause # 0
  /\ last.keys # <<>>

\* C2: isErr, a set guard and a kind function called with null, undefined, a
\* primitive, an ordinary array, a plain object or an object whose brand is
\* present but not true return the boolean false and raise nothing; the kind
\* function does not take an ordinary array for a template.
C2_NotBrandedRejected ==
  (last.op \in {"isErr", "guard", "kindFn"} /\ last.arg \in NotBranded) =>
    /\ ~last.res.threw
    /\ ~last.res.ret
    /\ last.op = "kindFn" => ~last.res.isCreator

\* A kind function was called with the ordinary array [ERR, "not_found"].
C2_Witness ==
  /\ last.op = "kindFn"
  /\ last.arg = Arr(<<"Symbol(err)", "not_found">>)
  /\ ~last.res.isCreator

\* C3: the data of a constructed value has exactly the referenced keys as
\* its keys (a key referenced several times appears once) and data[k] is
\* entity[k] for each; no unreferenced field of the entity appears in data.
C3_DataHoldsReferencedKeys ==
  last.op = "construct" =>
    LET data == heap[last.ref].data
        referenced == {last.keys[i] : i \in 1..Len(last.keys)}
    IN /\ DOMAIN data = referenced
       /\ \A k \in referenced :
            data[k] = IF k \in DOMAIN last.entity THEN last.entity[k]
                      ELSE Undefined

\* The template references id twice and the entity has a second field.
C3_Witness ==
  /\ last.op = "construct"
  /\ last.keys = <<"id", "id">>
  /\ DOMAIN last.entity = Fields
  /\ DOMAIN heap[last.ref].data = {"id"}

\* segment0 + text(key1) + segment1 + ... + text(keyN) + segmentN, where an
\* entity value whose type is in `empties` contributes the empty string and
\* any other contributes String(value).
RECURSIVE ExpectedMessage(_, _, _, _, _)
ExpectedMessage(strings, keys, entity, n, empties) ==
  IF n = 0 THEN strings[1]
  ELSE LET value == IF keys[n] \in DOMAIN entity THEN entity[keys[n]]
                    ELSE Undefined
           text == IF value.t \in empties THEN "" ELSE String(value)
       IN (ExpectedMessage(strings, keys, entity, n - 1, empties) \o text)
            \o strings[n + 1]

\* C4 as stated: the message is the segments interleaved with
\* String(entity[key]), a missing or undefined value contributing "".
C4_MessageAsStated ==
  last.op = "construct" =>
    heap[last.ref].message =
      ExpectedMessage(last.strings, last.keys, last.entity, Len(last.keys),
                      {"undefined"})

\* C4 as amended: a missing, undefined or null value contributes ""; "User ",
\* " not found" with key id and entity {id: "123"} give "User 123 not found".
C4_MessageNullIsEmpty ==
  last.op = "construct" =>
    /\ heap[last.ref].message =
         ExpectedMessage(last.strings, last.keys, last.entity, Len(last.keys),
                         {"undefined", "null"})
    /\ ( /\ last.strings = <<"User ", " not found">>
         /\ last.keys = <<"id">>
         /\ "id" \in DOMAIN last.entity
         /\ last.entity["id"] = Str("123") )
       => heap[last.ref].message = "User 123 not found"

\* A null id between "User " and " not found".
C4_Witness ==
  /\ last.op = "construct"
  /\ last.strings = <<"User ", " not found">>
  /\ last.keys = <<"id">>
  /\ "id" \in DOMAIN last.entity
  /\ last.entity["id"] = Null
  /\ heap[last.ref].message = "User  not found"

\* C5: errorSet(name, kinds) throws if and only if some kind occurs twice in
\* kinds, at any two positions; the message names the first kind met a second
\* time in a left-to-right scan and the set's name, and no set comes of the
\* call; a list without repeats is accepted.
C5_DuplicateKindsThrow ==
  last.op = "errorSet" =>
    LET ks == last.kinds
        again == {j \in 1..Len(ks) : \E i \in 1..(j - 1) : ks[i] = ks[j]}
        first == CHOOSE j \in again : \A j2 \in again : j <= j2
    IN /\ last.threw <=> again # {}
       /\ last.threw =>
            /\ last.error = "Duplicate kind \"" \o ks[first]
                              \o "\" in error set \"" \o last.name \o "\""
            /\ last.set = 0
            /\ sets = <<>>
       /\ ~last.threw =>
            /\ last.set = 1
            /\ Len(sets) = 1
            /\ sets[1].kinds = ks
            /\ sets[1].name = last.name

\* In [a, b, b, a] the scan meets b a second time before a.
C5_Witness ==
  /\ last.op = "errorSet"
  /\ last.kinds = <<"a", "b", "b", "a">>
  /\ last.threw
  /\ last.error = "Duplicate kind \"b\" in error set \"OrderError\""

\* C6: for every kind list the compile-time walk HasDuplicates/NoDuplicates
\* rejects the list exactly when the runtime scan of errorSet throws for it.
C6_WalkAgreesWithScan ==
  last.op = "errorSet" =>
    (last.rejected <=> (last.threw /\ last.at = "errorSet"))

\* Both layers reject [a, b, a], whose repeat is not adjacent.
C6_Witness ==
  /\ last.op = "errorSet"
  /\ last.kinds = <<"a", "b", "a">>
  /\ last.rejected
  /\ last.threw

\* C7: recover on a value the set guard rejects returns that very value and
\* invokes no handler, also when a catch-all is supplied.
C7_RecoverPassesThrough ==
  (last.op = "recover" /\ ~guard(sets[last.set].kinds, last.arg).ret) =>
    /\ ~last.res.threw
    /\ last.res.passed
    /\ last.res.value = last.arg
    /\ last.res.calls = <<>>

\* An error of a kind the set does not declare, with a catch-all supplied.
C7_Witness ==
  /\ last.op = "recover"
  /\ last.arg = Obj("true", "string", "elsewhere")
  /\ "_" \in last.handlers
  /\ last.res.passed

\* C8: for a value the set guard accepts, whatever its kind, recover invokes
\* exactly one handler once, passing it the value: the one keyed by the kind
\* when supplied, otherwise the catch-all; its return value is the result.
\* With neither, recover invokes nothing and throws, naming the kind.
C8_RecoverDispatch ==
  (last.op = "recover" /\ guard(sets[last.set].kinds, last.arg).ret) =>
    LET kind == last.arg.kind
        r == last.res
    IN IF kind \in last.handlers
       THEN /\ ~r.threw
            /\ r.calls = <<[fn |-> "own", key |-> kind, arg |-> last.arg]>>
            /\ r.out = "handler:" \o kind
       ELSE IF "_" \in last.handlers
       THEN /\ ~r.threw
            /\ r.calls = <<[fn |-> "own", key |-> "_", arg |-> last.arg]>>
            /\ r.out = "handler:_"
       ELSE /\ r.threw
            /\ r.calls = <<>>
            /\ r.error = "No handler found for error kind: " \o kind
                 \o ". Provide a handler for \"" \o kind
                 \o "\" or a catch-all \"_\" handler."

\* C9: inspect invokes at most one handler, and only the one keyed by the
\* value's kind when the set guard accepts the value; it invokes nothing for
\* a rejected value or a kind without a handler (the catch-all is no
\* fallback) and does not throw.
C9_InspectDispatch ==
  last.op = "inspect" =>
    LET r == last.res
        accepted == guard(sets[last.set].kinds, last.arg).ret
    IN /\ ~r.threw
       /\ Len(r.calls) <= 1
       /\ IF accepted /\ last.arg.kind \in last.handlers
          THEN r.calls = <<[fn |-> "own", key |-> last.arg.kind,
                            arg |-> last.arg]>>
          ELSE r.calls = <<>>

\* C10: merge(A, B) returns a guard whose kinds are A's followed by B's in
\* their order, a kind of both appearing twice, and which accepts a value
\* exactly when A's guard or B's guard accepts it.
C10_MergeConcatenates ==
  last.op = "merge" =>
    LET A == sets[last.a].kinds
        B == sets[last.b].kinds
        M == last.res.kinds
    IN /\ Len(M) = Len(A) + Len(B)
       /\ \A i \in 1..Len(A) : M[i] = A[i]
       /\ \A j \in 1..Len(B) : M[Len(A) + j] = B[j]
       /\ \A v \in Values(heap) \cup {ATemplate} :
            guard(M, v) = Ret(guard(A, v).ret \/ guard(B, v).ret)

\* Two different sets that share a kind are merged, and a constructed value
\* is accepted by the second only.
C10_Witness ==
  /\ last.op = "merge"
  /\ last.a # last.b
  /\ Range(sets[last.a].kinds) \cap Range(sets[last.b].kinds) # {}
  /\ Len(last.res.kinds) = 3
  /\ \E v \in Refs(heap) :
       /\ ~guard(sets[last.a].kinds, v).ret
       /\ guard(sets[last.b].kinds, v).ret

\* C11: a merge call changes neither A.kinds nor B.kinds nor what the guards
\* and kind functions of any set return, nor any guard earlier merges
\* returned; each call adds one new guard holding its own kinds list.
C11_MergeLeavesInputs ==
  [][last'.op = "merge" =>
       /\ sets' = sets
       /\ heap' = heap
       /\ \A s \in 1..Len(sets) :
            /\ \A v \in Values(heap) :
                 guard(sets'[s].kinds, v) = guard(sets[s].kinds, v)
            /\ \A k \in Range(sets[s].kinds) : \A i \in 1..Len(heap) :
                 kindFn(k, Ref(heap', i), <<>>) = kindFn(k, Ref(heap, i), <<>>)
       /\ Len(merged') = Len(merged) + 1
       /\ \A i \in 1..Len(merged) : merged'[i] = merged[i]
       /\ merged'[Len(merged')] = last'.res
       /\ last'.res.kinds = sets[last'.a].kinds \o sets[last'.b].kinds]_vars

\* Two different sets of one kind each were merged twice: two guards exist
\* and both sets are as declared.
C11_Witness ==
  /\ last.op = "merge"
  /\ last.a # last.b
  /\ Len(merged) = 2
  /\ merged[1] = merged[2]
  /\ Len(sets[last.a].kinds) = 1
  /\ Len(sets[last.b].kinds) = 1
  /\ heap # <<>>

\* C12: capture passes on the result of a function that returns and never
\* invokes the mapper; when the function throws x, the mapper is invoked
\* exactly once and the value it returns is capture's result, the mapper
\* receiving x itself when x is an Error and otherwise a new Error whose
\* message is String(x).
C12_CaptureSync ==
  last.op = "capture" =>
    LET fn == last.fn
        r == last.res
    IN IF ~fn.throws
       THEN /\ ~r.threw
            /\ r.by = "fn"
            /\ r.value = fn.value
            /\ r.calls = <<>>
            /\ last.ref = 0
       ELSE /\ ~r.threw
            /\ r.by = "mapper"
            /\ Len(r.calls) = 1
            /\ last.ref = Len(heap)
            /\ heap[last.ref].message = "Query failed: " \o r.calls[1].s
            /\ IF fn.value.t = "error"
               THEN r.calls[1] = fn.value
               ELSE /\ r.calls[1].t = "error"
                    /\ r.calls[1] # fn.value
                    /\ r.calls[1].s = String(fn.value)

\* C13: the promise captureAsync returns is fulfilled with fn's awaited
\* result when fn succeeds, and with the mapper's result both when fn throws
\* and when the promise it returned is rejected; in both failure cases the
\* mapper is invoked exactly once, only after the failure, with the Error
\* captureSync would pass, and the promise is not rejected.
C13_CaptureAsync ==
  \A i \in 1..Len(tasks) :
    LET t == tasks[i]
        failed == t.fn.how \in {"throw", "reject"}
    IN /\ t.phase # "done" =>
            /\ PromiseState(t) = "pending"
            /\ t.res.calls = <<>>
            /\ t.ref = 0
       /\ (t.phase = "done" /\ ~failed) =>
            /\ PromiseState(t) = "fulfilled"
            /\ t.res.by = "fn"
            /\ t.res.value = t.fn.value
            /\ t.res.calls = <<>>
       /\ (t.phase = "done" /\ failed) =>
            /\ PromiseState(t) = "fulfilled"
            /\ t.res.by = "mapper"
            /\ Len(t.res.calls) = 1
            /\ t.ref \in 1..Len(heap)
            /\ heap[t.ref].message = "Query failed: " \o t.res.calls[1].s
            /\ IF t.fn.value.t = "error"
               THEN t.res.calls[1] = t.fn.value
               ELSE /\ t.res.calls[1].t = "error"
                    /\ t.res.calls[1] # t.fn.value
                    /\ t.res.calls[1].s = String(t.fn.value)

\* The heap indices met walking the cause links from value i on.
RECURSIVE Chain(_, _)
Chain(h, i) == IF i = 0 THEN <<>> ELSE <<i>> \o Chain(h, h[i].cause)

\* C14: a value constructed with {cause: c} has c itself as its cause, and
\* the construction leaves every existing value (kind, message, data, cause)
\* as it was, so the walk from the new value goes through every level of
\* c's chain unchanged; a value constructed without a cause has none.
C14_CausePreserved ==
  [][last'.op = "construct" =>
       LET n == last'.ref
           c == last'.cause
       IN /\ n = Len(heap) + 1
          /\ Len(heap') = n
          /\ \A i \in 1..Len(heap) : heap'[i] = heap[i]
          /\ heap'[n].cause = c
          /\ Chain(heap', n) = <<n>> \o Chain(heap, c)
          /\ \A j \in 1..Len(Chain(heap, c)) :
               LET before == heap[Chain(heap, c)[j]]
                   after == heap'[Chain(heap', n)[j + 1]]
               IN /\ after.kind = before.kind
                  /\ after.data = before.data
                  /\ after.message = before.message]_vars

\* A chain of three levels whose outermost and innermost values have
\* different kinds.
C14_Witness ==
  /\ last.op = "construct"
  /\ Len(Chain(heap, last.ref)) = 3
  /\ heap[last.ref].kind # heap[Chain(heap, last.ref)[3]].kind
  /\ heap[Chain(heap, last.ref)[3]].cause = 0

\* C15: what a template without placeholder keys evaluates to is itself an
\* error value (brand true, the function's kind) that isErr, the set guard
\* in call and instanceof style and its own kind guard accept and the other
\* kind guards reject.
C15_ZeroPlaceholderIsErrorValue ==
  (last.op = "template" /\ last.keys = <<>>) =>
    LET v == last.value
        S == sets[last.set].kinds
    IN /\ v.brand = "true"
       /\ v.kindTyp = "string"
       /\ v.kind = last.kind
       /\ isErr(v) = Ret(TRUE)
       /\ guard(S, v) = Ret(TRUE)
       /\ hasInstance(S, v) = Ret(TRUE)
       /\ kindFn(last.kind, v, <<>>) = KindRet(Ret(TRUE))
       /\ \A k \in Range(S) \ {last.kind} :
            kindFn(k, v, <<>>) = KindRet(Ret(FALSE))

C17_Case ==
  /\ last.op = "kindFn"
  /\ last.arg.ref # 0
  /\ heap[last.arg.ref].kind = last.kind
  /\ \E m \in 1..Len(merged) : guard(merged[m].kinds, last.arg).ret
  /\ \E b \in 1..Len(sets) :
       b # last.set /\ last.kind \in Range(sets[b].kinds)

Effective(o, g) == [f \in DOMAIN g |-> IF f \in DOMAIN o THEN o[f] ELSE g[f]]

\* C18: a value constructed by a set declared with a settings override is
\* made under the override laid field by field over the global settings (it
\* carries a stack, on a platform that can capture one, exactly when stack
\* capture is on in those effective settings, trimmed to their depth); a
\* set declared without an override follows the global settings only; and
\* constructing leaves the settings getConfig returns as they were.
C18_OverrideApplies ==
  [][last'.op = "construct" =>
       LET o == sets[last'.set].config
           eff == Effective(o, currentConfig)
           v == heap'[last'.ref]
       IN /\ v.stack.present <=> (eff.includeStack /\ engine = "v8")
          /\ v.stack.present => v.stack.frames = eff.stackDepth
          /\ o = NoConfig =>
               (v.stack.present <=> (currentConfig.includeStack /\ engine = "v8"))
          /\ getConfig(currentConfig') = getConfig(currentConfig)
          /\ stackTraceLimit' = stackTraceLimit]_vars

C18_Witness ==
  /\ last.op = "construct"
  /\ sets[last.set].config = Restrict(AltA, {"includeStack", "stackDepth"})
  /\ ~currentConfig.includeStack
  /\ currentConfig.stackDepth = 20
  /\ heap[last.ref].stack = [present |-> TRUE, frames |-> 5]
  /\ \E s \in 1..Len(sets) : sets[s].config = NoConfig

\* The defaults as documented.
DocumentedDefaults ==
  [format |-> "pretty", includeStack |-> FALSE, includeTimestamp |-> FALSE,
   colors |-> TRUE, stackDepth |-> 10]

\* The value of field f after the calls of l: that of the latest configure
\* that specified f since the last resetConfig, else the default.
RECURSIVE LatestValue(_, _)
LatestValue(l, f) ==
  IF l = <<>> THEN DocumentedDefaults[f]
  ELSE LET c == l[Len(l)]
       IN IF c.op = "resetConfig" THEN DocumentedDefaults[f]
          ELSE IF f \in DOMAIN c.options THEN c.options[f]
          ELSE LatestValue(SubSeq(l, 1, Len(l) - 1), f)

\* C19: after any sequence of configure and resetConfig calls, each field
\* getConfig returns is the value of the latest configure that specified it
\* since the last reset, or its default (pretty, stack off, timestamp off,
\* colors on, depth 10) when there is none.
C19_LatestConfigureWins ==
  /\ DOMAIN getConfig(currentConfig) = DOMAIN DocumentedDefaults
  /\ \A f \in DOMAIN DocumentedDefaults :
       getConfig(currentConfig)[f] = LatestValue(log, f)
  /\ last.op = "getConfig" =>
       \A f \in DOMAIN DocumentedDefaults : last.res[f] = LatestValue(log, f)

C19_Witness ==
  /\ Len(log) = 3
  /\ log[1].op = "resetConfig"
  /\ log[2] = [op |-> "configure",
               options |-> Restrict(AltA, {"format", "includeStack", "stackDepth"})]
  /\ log[3] = [op |-> "configure", options |-> Restrict(AltB, {"stackDepth"})]
  /\ last.op = "getConfig"
  /\ last.res = [format |-> "json", includeStack |-> TRUE,
                 includeTimestamp |-> FALSE, colors |-> TRUE, stackDepth |-> 20]

\* C20: a constructed value carries a timestamp field if and only if
\* timestamps are enabled in the settings in effect when it is constructed.
C20_TimestampIffEnabled ==
  last.op = "construct" =>
    LET eff == Effective(sets[last.set].config, currentConfig)
    IN ("timestamp" \in DOMAIN heap[last.ref]) <=> eff.includeTimestamp

\* What holds of the m-th merged guard whenever its members are read: its
\* kinds property holds the kinds of two declared sets, one list after the
\* other, and no kind name is a kind function on it.
MergedMembers ==
  (last.op = "member" /\ last.of = "merged") =>
    /\ \E a, b \in 1..Len(sets) : last.kinds = sets[a].kinds \o sets[b].kinds
    /\ last.key = "kinds" => last.res = "kinds"
    /\ last.key \in Range(last.kinds) => last.res = "undefined"

C22_InstanceofIsCall ==
  last.op = "instanceof" =>
    /\ last.res = guard(sets[last.set].kinds, last.arg)
    /\ ~last.res.threw
    /\ last.res.ret \in BOOLEAN

\* instanceof accepted a constructed value for one set and rejected it for
\* another.
C22_Witness ==
  /\ last.op = "instanceof"
  /\ last.arg.ref # 0
  /\ last.res = Ret(TRUE)
  /\ \E s \in 1..Len(sets) : hasInstance(sets[s].kinds, last.arg) = Ret(FALSE)

\* C23: iterating a declared set yields each declared kind once, in
\* declaration order (the sequence of its kinds list), however many
\* iterations are started and in whatever order they are advanced: what an
\* iterator has yielded is always the first kinds of the declaration, all of
\* them once it is done, and spreading the set gives the whole list.
C23_IterationYieldsKinds ==
  /\ \A i \in 1..Len(iters) :
       LET it == iters[i]
           declared == sets[it.set].members
       IN /\ it.pos <= Len(declared)
          /\ it.out = SubSeq(declared, 1, it.pos)
          /\ it.out = SubSeq(sets[it.set].kinds, 1, it.pos)
          /\ \A j, k \in 1..Len(it.out) : j # k => it.out[j] # it.out[k]
          /\ it.done => it.out = declared
  /\ (last.op = "next" /\ ~last.done) =>
       last.value = sets[iters[last.iter].set].members[iters[last.iter].pos]
  /\ (last.op = "spread" /\ last.of = "set") =>
       last.res = [threw |-> FALSE, error |-> "",
                   items |-> sets[last.set].members]

\* A second iteration of a set of two kinds has finished while the first,
\* started earlier, has yielded one kind only.
C23_Witness ==
  /\ Len(iters) = 2
  /\ iters[1].set = iters[2].set
  /\ iters[2].done
  /\ iters[2].out = <<"suspended", "not_found">>
  /\ iters[1].out = <<"suspended">>
  /\ ~iters[1].done

\* C24: converting a kind function to a primitive yields exactly its own
\* kind string in every context: String(fn), fn.toString(), concatenation,
\* template interpolation, array join, and loose equality with a string
\* (true exactly for its own kind).
C24_KindFnCoercesToKind ==
  last.op = "coerce" =>
    CASE last.context \in {"String", "toString"} -> last.res = last.kind
      [] last.context = "concat" -> last.res = "Kind: " \o last.kind
      [] last.context = "template" -> last.res = "Kind is " \o last.kind
      [] last.context = "join" ->
           last.res = (last.kind \o ", ") \o last.other
      [] last.context = "looseEq" ->
           last.res = (IF last.kind = last.other THEN "true" ELSE "false")

\* toString() was called on the second kind function of a set.
C24_Witness ==
  /\ last.op = "coerce"
  /\ last.context = "toString"
  /\ Len(sets[last.set].kinds) = 2
  /\ last.kind = sets[last.set].kinds[2]
  /\ last.res = last.kind

\* C25: declaring a set raises only for a duplicate kind: for every list of
\* kind strings without a repeat, whatever the strings are,
\* errorSet(name, kinds).init() returns a set that has one kind function per
\* declared kind under that kind's name.
C25_OnlyDuplicatesRaise ==
  (last.op = "errorSet" /\ ~HasDuplicates(last.kinds)) =>
    /\ ~last.threw
    /\ last.set = Len(sets)
    /\ sets[last.set].kinds = last.kinds
    /\ \A k \in Range(last.kinds) :
         GetMember(SetProps(last.set), k) = "kindFn"

\* The last call was a guard of some sort and it accepted its argument.
Accepted ==
  /\ last.op \in {"isErr", "guard", "instanceof", "kindFn"}
  /\ ~last.res.threw
  /\ last.res.ret

\* C26: every value accepted by isErr or by a set or kind guard was produced
\* by a kind function of the engine; a value built by hand outside the
\* module is never accepted.
C26_AcceptedIsEngineMade ==
  Accepted => last.arg.ref # 0

\* C27: after declaration a set never changes: through every later
\* operation, engine call or write by the caller to the array it declared
\* the set with, the kinds list, the iteration sequence and the guard's
\* membership test stay those of the list given at declaration.
C27_SetNeverChanges ==
  /\ \A s \in 1..Len(sets) : sets[s].kinds = sets[s].members
  /\ (last.op = "spread" /\ last.of = "set") =>
       last.res.items = sets[last.set].members
  /\ last.op = "guard" =>
       (last.res.ret <=> last.arg.kind \in Range(sets[last.set].members))

\* C28: settings are read each time a value is constructed, not when the
\* set is declared: a value is built under the settings in force at its
\* construction (it gets a stack, on a platform that can capture one,
\* exactly when stack capture is on then, trimmed to the depth set then),
\* and neither a later construction nor a later configure or resetConfig
\* touches a value that exists.
C28_SettingsReadAtConstruction ==
  [][/\ last'.op = "construct" =>
          LET eff == Effective(sets[last'.set].config, currentConfig)
              v == heap'[last'.ref]
          IN /\ v.stack.present <=> (eff.includeStack /\ engine = "v8")
             /\ v.stack.present => v.stack.frames = eff.stackDepth
             /\ \A i \in 1..Len(heap) : heap'[i] = heap[i]
     /\ last'.op \in {"configure", "resetConfig"} => heap' = heap]_vars

\* One set without override made a value without stack and then, stack
\* capture having been switched on with a depth of 20, one with a stack.
C28_Witness ==
  /\ Len(heap) = 2
  /\ origin = <<1, 1>>
  /\ sets[1].config = NoConfig
  /\ heap[1].stack = NoStack
  /\ heap[2].stack = [present |-> TRUE, frames |-> 20]
  /\ last.op = "construct"

\* Every cause is a value constructed before its wrapper, so that the walk
\* along the cause links from any value meets no value twice and ends, after
\* at most as many steps as there are values, at a value without cause.
ChainsEnd ==
  /\ \A i \in 1..Len(heap) : heap[i].cause \in 0..(i - 1)
  /\ \A i \in 1..Len(heap) :
       LET chain == Chain(heap, i)
       IN /\ Len(chain) <= i
          /\ \A j, k \in 1..Len(chain) : j # k => chain[j] # chain[k]
          /\ heap[chain[Len(chain)]].cause = 0

\* C29: after any sequence of constructions, with or without a cause, the
\* cause links from any constructed value lead to a value without cause in
\* finitely many steps and never back to a value already visited; a cause
\* is a value that existed before its wrapper, and no step sets or replaces
\* the cause of a value that exists.
C29_CauseChainsAcyclic ==
  /\ []ChainsEnd
  /\ [][\A i \in 1..Len(heap) : heap'[i].cause = heap[i].cause]_vars

\* Two values wrap the same cause.
C29_Witness ==
  /\ Len(heap) = 3
  /\ heap[2].cause = 1
  /\ heap[3].cause = 1
  /\ Chain(heap, 3) = <<3, 1>>
  /\ Chain(heap, 2) = <<2, 1>>

\* C30: constructing a value leaves Error.stackTraceLimit as it found it.
\* With stack capture on in the settings in force (and a platform that
\* captures), the limit is assigned the configured depth, the stack is
\* captured under it, and the limit is assigned its previous value again;
\* otherwise it is not assigned at all.  So the limit has its initial value
\* after any sequence of constructions and configure calls.
C30_StackTraceLimitRestored ==
  /\ stackTraceLimit = 10
  /\ last.op = "construct" =>
       LET eff == Effective(sets[last.set].config, currentConfig)
       IN IF eff.includeStack /\ engine = "v8"
          THEN /\ last.limitWrites = <<eff.stackDepth, 10>>
               /\ heap[last.ref].stack.frames = eff.stackDepth
          ELSE last.limitWrites = <<>>

\* A second value was constructed with a stack of depth 20, after a first
\* with a stack of another depth.
C30_Witness ==
  /\ last.op = "construct"
  /\ Len(heap) = 2
  /\ heap[1].stack.present
  /\ heap[1].stack.frames # 20
  /\ last.limitWrites = <<20, 10>>
  /\ stackTraceLimit = 10

====
